---- MODULE Spec2Model ----
(***************************************************************************)
(* The editor's reversible commands over a scene context.                  *)
(*                                                                         *)
(*  - the collection add / remove command pair generated by                *)
(*    define_vec_add_remove_commands (editor/src/scene/mod.rs);            *)
(*  - the composite command and the command stack that sequence them       *)
(*    (editor/src/scene/commands, described in spec.md 4.4 and 4.5);       *)
(*  - the rectangle property-changed command factory                       *)
(*    (editor/src/inspector/handlers/node/rectangle.rs).                   *)
(*                                                                         *)
(* A panic (Option::unwrap on None, Vec::remove / Vec::insert out of       *)
(* range) aborts the editor: `panicked` becomes TRUE and no operation      *)
(* runs afterwards.                                                        *)
(***************************************************************************)
EXTENDS Integers, Sequences, FiniteSets, TLC

VARIABLES
    ctx,        \* SceneContext: owner handle -> the collection reached through it
    panicked,   \* TRUE once an execute / revert has panicked
    last,       \* the last operation performed and the command it called
    stack,      \* CommandStack: the stored commands
    cursor,     \* CommandStack: number of stored commands that are "done"
    meta,       \* history, parallel to stack: identity, pushed form, executed?
    discarded,  \* history: identities of the commands dropped with a redo tail
    nextId,     \* history: identity given to the next pushed command
    base,       \* history: the context when the stack was last empty by construction / clear
    altOk,      \* history: every call so far respected execute / revert alternation
    cmd,        \* a command driven directly through the Command trait
    cmdMeta,    \* history of the directly driven command
    hcall       \* the last call of handle_rectangle_property_changed and its result

vars == <<ctx, panicked, last, stack, cursor, meta, discarded, nextId, base,
          altOk, cmd, cmdMeta, hcall>>

stackVars == <<stack, cursor, meta, discarded, nextId, base, altOk>>
cmdVars == <<cmd, cmdMeta>>

----------------------------------------------------------------------------
(* Bounds: values are 0..MaxVal, collections hold at most MaxLen elements,  *)
(* at most MaxPush commands are pushed on the stack, and at most MaxCalls   *)
(* calls are made on a directly driven command.                            *)

MaxVal == 1
MaxLen == 3
MaxPush == 2
MaxCalls == 3

----------------------------------------------------------------------------
(* Values, options, collections *)

\* <$value_ty as Default>::default(), what std::mem::take leaves behind.
Default == 0

Values == 0..MaxVal

Handles == {"h1"}

None == <<>>
Some(v) == <<v>>
Unwrap(o) == o[1]

\* Vec::remove(index): the element at the 0-based index leaves, the rest keep their order.
VecRemove(s, index) ==
    [k \in 1..(Len(s) - 1) |-> IF k <= index THEN s[k] ELSE s[k + 1]]

\* Vec::insert(index, value): value lands at the 0-based index, later elements shift right.
VecInsert(s, index, v) ==
    [k \in 1..(Len(s) + 1) |->
        IF k <= index THEN s[k] ELSE IF k = index + 1 THEN v ELSE s[k - 1]]

\* Vec::pop on a non-empty vector: the vector without its last element.
VecPop(s) == SubSeq(s, 1, Len(s) - 1)

VecLast(s) == s[Len(s)]

----------------------------------------------------------------------------
(* Commands *)

AddCommand(h, v) == [kind |-> "Add", handle |-> h, value |-> v]
RemoveCommand(h, i) == [kind |-> "Remove", handle |-> h, index |-> i, value |-> None]
CommandGroup(cs) == [kind |-> "Group", commands |-> cs]

\* The outcome of one execute / revert call: the context and the command as the
\* call left them, and whether it returned (ok) or panicked.
Done(x, c) == [ctx |-> x, cmd |-> c, ok |-> TRUE]
Panic(x, c) == [ctx |-> x, cmd |-> c, ok |-> FALSE]

\* A faulty execute: the value goes to the front of the collection.
AddExecuteFront(c, x) ==
    Done([x EXCEPT ![c.handle] = <<c.value>> \o @],
         [c EXCEPT !.value = Default])

\* $get_container.push(std::mem::take(&mut $self.value))
AddExecute(c, x) ==
    Done([x EXCEPT ![c.handle] = Append(@, c.value)],
         [c EXCEPT !.value = Default])

\* A faulty revert: the popped element is dropped, not recaptured.
AddRevertDrop(c, x) ==
    IF x[c.handle] = <<>>
    THEN Panic(x, c)
    ELSE Done([x EXCEPT ![c.handle] = VecPop(@)], c)

\* $self.value = $get_container.pop().unwrap()
AddRevert(c, x) ==
    IF x[c.handle] = <<>>
    THEN Panic(x, c)
    ELSE Done([x EXCEPT ![c.handle] = VecPop(@)],
              [c EXCEPT !.value = VecLast(x[c.handle])])

\* $self.value = Some($get_container.remove($self.index))
RemoveExecute(c, x) ==
    IF c.index >= Len(x[c.handle])
    THEN Panic(x, c)
    ELSE Done([x EXCEPT ![c.handle] = VecRemove(@, c.index)],
              [c EXCEPT !.value = Some(x[c.handle][c.index + 1])])

\* A faulty revert: the element is pushed back at the end, not at its index.
RemoveRevertAppend(c, x) ==
    IF c.value = None
    THEN Panic(x, c)
    ELSE Done([x EXCEPT ![c.handle] = Append(@, Unwrap(c.value))],
              [c EXCEPT !.value = None])

\* A faulty revert: the stored value is copied out, the slot is not emptied.
RemoveRevertNoTake(c, x) ==
    IF c.value = None
    THEN Panic(x, c)
    ELSE IF c.index > Len(x[c.handle])
    THEN Panic(x, c)
    ELSE Done([x EXCEPT ![c.handle] = VecInsert(@, c.index, Unwrap(c.value))], c)

\* $get_container.insert($self.index, $self.value.take().unwrap())
\* The argument is evaluated first: take() empties the slot, unwrap() panics on
\* None; insert panics when index > len, after the slot was emptied.
RemoveRevert(c, x) ==
    IF c.value = None
    THEN Panic(x, c)
    ELSE IF c.index > Len(x[c.handle])
    THEN Panic(x, [c EXCEPT !.value = None])
    ELSE Done([x EXCEPT ![c.handle] = VecInsert(@, c.index, Unwrap(c.value))],
              [c EXCEPT !.value = None])

RECURSIVE Execute(_, _), Revert(_, _), ExecuteChildren(_, _, _), RevertChildren(_, _, _)

\* Composite execute: children in stored order, first to last, from child i on.
ExecuteChildren(cs, i, x) ==
    IF i > Len(cs)
    THEN Done(x, cs)
    ELSE LET r == Execute(cs[i], x)
             done == [cs EXCEPT ![i] = r.cmd]
         IN  IF r.ok THEN ExecuteChildren(done, i + 1, r.ctx) ELSE Panic(r.ctx, done)

\* Composite revert: children in reverse order, from child i down to the first.
RevertChildren(cs, i, x) ==
    IF i < 1
    THEN Done(x, cs)
    ELSE LET r == Revert(cs[i], x)
             done == [cs EXCEPT ![i] = r.cmd]
         IN  IF r.ok THEN RevertChildren(done, i - 1, r.ctx) ELSE Panic(r.ctx, done)

GroupExecute(c, x) ==
    LET r == ExecuteChildren(c.commands, 1, x)
    IN  [ctx |-> r.ctx, cmd |-> [c EXCEPT !.commands = r.cmd], ok |-> r.ok]

GroupRevert(c, x) ==
    LET r == RevertChildren(c.commands, Len(c.commands), x)
    IN  [ctx |-> r.ctx, cmd |-> [c EXCEPT !.commands = r.cmd], ok |-> r.ok]

\* Command::execute, dispatched on the command's variant.
Execute(c, x) ==
    CASE c.kind = "Add" -> AddExecute(c, x)
      [] c.kind = "Remove" -> RemoveExecute(c, x)
      [] c.kind = "Group" -> GroupExecute(c, x)

\* Command::revert, dispatched on the command's variant.
Revert(c, x) ==
    CASE c.kind = "Add" -> AddRevert(c, x)
      [] c.kind = "Remove" -> RemoveRevert(c, x)
      [] c.kind = "Group" -> GroupRevert(c, x)

----------------------------------------------------------------------------
(* Inputs *)

Collections == UNION {[1..n -> Values] : n \in 0..MaxLen}
Contexts == [Handles -> Collections]

LeafCommands ==
    {AddCommand(h, v) : h \in Handles, v \in Values}
        \cup {RemoveCommand(h, i) : h \in Handles, i \in 0..(MaxLen - 1)}

GroupCommands == {CommandGroup(<<a, b>>) : a \in LeafCommands, b \in LeafCommands}

Commands == LeafCommands \cup GroupCommands

WithinBounds(x) == \A h \in Handles : Len(x[h]) <= MaxLen

NoCommand == [kind |-> "None"]
NoMeta == [executed |-> FALSE, clean |-> FALSE, preCtx |-> <<>>, preCmd |-> NoCommand,
           ops |-> <<>>]
NoCall == [called |-> FALSE]
NoOp == [op |-> "init", target |-> 0]

----------------------------------------------------------------------------
(* A command driven directly through the Command trait.                    *)
(* cmdMeta records, for the claims: ops, the calls made so far; executed,  *)
(* whether the last call that returned was execute; preCtx / preCmd, the   *)
(* context and the command right before that execute; clean, whether the   *)
(* collection is untouched since that execute.                             *)

InitCmd ==
    /\ ctx \in Contexts
    /\ cmd \in Commands
    /\ cmdMeta = NoMeta
    /\ panicked = FALSE
    /\ last = NoOp
    /\ stack = <<>> /\ cursor = 0 /\ meta = <<>> /\ discarded = {} /\ nextId = 1
    /\ base = ctx /\ altOk = TRUE
    /\ hcall = NoCall

\* cmd.execute(&mut context)
CmdExecute ==
    /\ ~panicked
    /\ Len(cmdMeta.ops) < MaxCalls
    /\ \E r \in {Execute(cmd, ctx)} :
           /\ WithinBounds(r.ctx)
           /\ ctx' = r.ctx
           /\ cmd' = r.cmd
           /\ panicked' = ~r.ok
           /\ cmdMeta' = IF r.ok
                         THEN [executed |-> TRUE, clean |-> TRUE,
                               preCtx |-> ctx, preCmd |-> cmd,
                               ops |-> Append(cmdMeta.ops, "execute")]
                         ELSE [cmdMeta EXCEPT !.ops = Append(@, "execute")]
    /\ UNCHANGED <<last, stackVars, hcall>>

\* cmd.revert(&mut context)
CmdRevert ==
    /\ ~panicked
    /\ Len(cmdMeta.ops) < MaxCalls
    /\ \E r \in {Revert(cmd, ctx)} :
           /\ ctx' = r.ctx
           /\ cmd' = r.cmd
           /\ panicked' = ~r.ok
           /\ cmdMeta' = IF r.ok
                         THEN [cmdMeta EXCEPT !.executed = FALSE, !.clean = FALSE,
                                              !.ops = Append(@, "revert")]
                         ELSE [cmdMeta EXCEPT !.ops = Append(@, "revert")]
    /\ UNCHANGED <<last, stackVars, hcall>>

\* The context owner changes a collection between two calls of the command.
OutOfBand ==
    /\ ~panicked
    /\ Len(cmdMeta.ops) < MaxCalls
    /\ \E h \in Handles :
         \/ \E v \in Values :
              /\ Len(ctx[h]) < MaxLen
              /\ ctx' = [ctx EXCEPT ![h] = Append(@, v)]
         \/ /\ ctx[h] # <<>>
            /\ ctx' = [ctx EXCEPT ![h] = VecPop(@)]
    /\ cmdMeta' = [cmdMeta EXCEPT !.clean = FALSE, !.ops = Append(@, "oob")]
    /\ UNCHANGED <<panicked, cmd, last, stackVars, hcall>>

NextCmd == CmdExecute \/ CmdRevert \/ OutOfBand

SpecCmd == InitCmd /\ [][NextCmd]_vars

\* The step just taken is a call of execute / revert on the driven command.
ExecuteStep == cmdMeta'.ops = Append(cmdMeta.ops, "execute")
RevertStep == cmdMeta'.ops = Append(cmdMeta.ops, "revert")

\* The driven command is being reverted right after its execute returned, with
\* no other change to the collection in between.
CleanRevert == RevertStep /\ cmdMeta.executed /\ cmdMeta.clean

----------------------------------------------------------------------------
(* The command stack (spec.md 4.5).                                        *)
(* Each operation maps the stack state s = [ctx, stack, cursor] to the new *)
(* one, with ok (FALSE when the called command panicked), call (what it    *)
(* called on a command, if anything) and target (that command's position). *)

StackState == [ctx |-> ctx, stack |-> stack, cursor |-> cursor]

Returned(x, st, cur) ==
    [ctx |-> x, stack |-> st, cursor |-> cur, ok |-> TRUE, call |-> "none", target |-> 0]

\* A faulty push: the redo tail is kept and the command is appended after it.
PushOpKeepTail(s, c) ==
    LET r == Execute(c, s.ctx)
    IN  IF r.ok
        THEN [ctx |-> r.ctx, stack |-> Append(s.stack, r.cmd), cursor |-> s.cursor + 1,
              ok |-> TRUE, call |-> "execute", target |-> Len(s.stack) + 1]
        ELSE [ctx |-> r.ctx, stack |-> s.stack, cursor |-> s.cursor,
              ok |-> FALSE, call |-> "execute", target |-> 0]

\* push(cmd): execute cmd; truncate the stored commands after the cursor;
\* append cmd; advance the cursor to the new length.
PushOp(s, c) ==
    LET r == Execute(c, s.ctx)
        kept == SubSeq(s.stack, 1, s.cursor)
    IN  IF r.ok
        THEN [ctx |-> r.ctx, stack |-> Append(kept, r.cmd), cursor |-> Len(kept) + 1,
              ok |-> TRUE, call |-> "execute", target |-> Len(kept) + 1]
        ELSE [ctx |-> r.ctx, stack |-> s.stack, cursor |-> s.cursor,
              ok |-> FALSE, call |-> "execute", target |-> 0]

\* A faulty undo: the command is reverted but the cursor stays.
UndoOpStuck(s) ==
    IF s.cursor = 0
    THEN Returned(s.ctx, s.stack, s.cursor)
    ELSE LET r == Revert(s.stack[s.cursor], s.ctx)
         IN  [ctx |-> r.ctx, stack |-> [s.stack EXCEPT ![s.cursor] = r.cmd],
              cursor |-> s.cursor,
              ok |-> r.ok, call |-> "revert", target |-> s.cursor]

\* undo(): no-op if cursor == 0; else decrement the cursor and revert the
\* command now at the cursor.
UndoOp(s) ==
    IF s.cursor = 0
    THEN Returned(s.ctx, s.stack, s.cursor)
    ELSE LET r == Revert(s.stack[s.cursor], s.ctx)
         IN  [ctx |-> r.ctx, stack |-> [s.stack EXCEPT ![s.cursor] = r.cmd],
              cursor |-> s.cursor - 1,
              ok |-> r.ok, call |-> "revert", target |-> s.cursor]

\* redo(): no-op if cursor == length; else execute the command at the cursor
\* and increment the cursor.
RedoOp(s) ==
    IF s.cursor = Len(s.stack)
    THEN Returned(s.ctx, s.stack, s.cursor)
    ELSE LET r == Execute(s.stack[s.cursor + 1], s.ctx)
         IN  [ctx |-> r.ctx, stack |-> [s.stack EXCEPT ![s.cursor + 1] = r.cmd],
              cursor |-> s.cursor + 1,
              ok |-> r.ok, call |-> "execute", target |-> s.cursor + 1]

\* clear(): drop all stored commands, reset the cursor; nothing is reverted.
ClearOp(s) == Returned(s.ctx, <<>>, 0)

\* The editor session starts with a loaded scene and an empty stack. The loaded
\* collections are short enough for MaxPush pushes to grow them within MaxLen.
InitContexts == {x \in Contexts : \A h \in Handles : Len(x[h]) <= MaxLen - MaxPush}

Init ==
    /\ ctx \in InitContexts
    /\ stack = <<>>
    /\ cursor = 0
    /\ panicked = FALSE
    /\ last = NoOp
    /\ meta = <<>> /\ discarded = {} /\ nextId = 1 /\ base = ctx /\ altOk = TRUE
    /\ cmd = NoCommand /\ cmdMeta = NoMeta
    /\ hcall = NoCall

Ids(m) == {m[i].id : i \in DOMAIN m}

\* The history of a stack operation that called `call` on the command at `target`.
Called(r, m) ==
    /\ altOk' = (altOk /\ (r.target \in DOMAIN m)
                       /\ (m[r.target].executed <=> (r.call = "revert")))
    /\ meta' = [i \in DOMAIN m |->
                  IF i = r.target
                  THEN [m[i] EXCEPT !.executed = (r.call = "execute")]
                  ELSE m[i]]

Push(c) ==
    /\ ~panicked
    /\ nextId <= MaxPush
    /\ \E r \in {PushOp(StackState, c)} :
       LET entry == [id |-> nextId, pushed |-> c, executed |-> FALSE]
           kept == SubSeq(meta, 1, Len(r.stack) - 1)
       IN  /\ WithinBounds(r.ctx)
           /\ ctx' = r.ctx /\ stack' = r.stack /\ cursor' = r.cursor
           /\ panicked' = ~r.ok
           /\ IF r.ok
              THEN /\ Called(r, Append(kept, entry))
                   /\ discarded' = discarded \cup (Ids(meta) \ Ids(kept))
              ELSE UNCHANGED <<altOk, meta, discarded>>
           /\ last' = [op |-> "push", target |-> nextId]
    /\ nextId' = nextId + 1
    /\ UNCHANGED <<base, cmdVars, hcall>>

Undo ==
    /\ ~panicked
    /\ \E r \in {UndoOp(StackState)} :
           /\ ctx' = r.ctx /\ stack' = r.stack /\ cursor' = r.cursor
           /\ panicked' = ~r.ok
           /\ IF r.call = "none"
              THEN /\ UNCHANGED <<altOk, meta>>
                   /\ last' = [op |-> "undo", target |-> 0]
              ELSE /\ Called(r, meta)
                   /\ last' = [op |-> "undo", target |-> meta[r.target].id]
    /\ UNCHANGED <<discarded, nextId, base, cmdVars, hcall>>

Redo ==
    /\ ~panicked
    /\ \E r \in {RedoOp(StackState)} :
           /\ ctx' = r.ctx /\ stack' = r.stack /\ cursor' = r.cursor
           /\ panicked' = ~r.ok
           /\ IF r.call = "none"
              THEN /\ UNCHANGED <<altOk, meta>>
                   /\ last' = [op |-> "redo", target |-> 0]
              ELSE /\ Called(r, meta)
                   /\ last' = [op |-> "redo", target |-> meta[r.target].id]
    /\ UNCHANGED <<discarded, nextId, base, cmdVars, hcall>>

Clear ==
    /\ ~panicked
    /\ \E r \in {ClearOp(StackState)} :
           /\ ctx' = r.ctx /\ stack' = r.stack /\ cursor' = r.cursor
    /\ meta' = <<>>
    /\ discarded' = discarded \cup Ids(meta)
    /\ base' = ctx
    /\ last' = [op |-> "clear", target |-> 0]
    /\ UNCHANGED <<panicked, nextId, altOk, cmdVars, hcall>>

Next ==
    \/ \E c \in Commands : Push(c)
    \/ Undo
    \/ Redo
    \/ Clear

Spec == Init /\ [][Next]_vars

----------------------------------------------------------------------------
(* The rectangle property-changed command factory *)

\* Rectangle::TEXTURE, Rectangle::COLOR, Rectangle::BASE: the property names
\* of the rectangle node the handler matches on.
TEXTURE == "texture"
COLOR == "color"
BASE == "base"

PropertyNames == {TEXTURE, COLOR, BASE, "name", "uv_rect"}
InnerNames == {"name", "visibility"}
FieldValues == {"v1", "v2"}
NodeHandles == {"n1", "n2"}
NodeKinds == {"Rectangle", "Sprite", "Camera"}

\* FieldKind::Object(value), FieldKind::Inspectable(inner), FieldKind::Collection(..)
Object(v) == [kind |-> "Object", value |-> v]
Inspectable(inner) == [kind |-> "Inspectable", inner |-> inner]
Collection == [kind |-> "Collection"]

\* PropertyChanged { name, value, .. }
PropertyChanged(name, value) == [name |-> name, value |-> value]

FieldKinds ==
    {Object(v) : v \in FieldValues}
        \cup {Inspectable(PropertyChanged(n, Object(v))) : n \in InnerNames, v \in FieldValues}
        \cup {Collection}

PropertyChangedArgs == {PropertyChanged(n, k) : n \in PropertyNames, k \in FieldKinds}

\* What the code outside these sources answers during one call: whether
\* make_command! can build the command from the value, and what the base-node
\* handler returns.
BaseCommand == [command |-> "BaseCommand"]
Envs == [castOk : BOOLEAN, baseResult : {None, Some(BaseCommand)}]

\* node.is_rectangle()
is_rectangle(node) == node = "Rectangle"

\* The value the handler returns, and the arguments it passed to the
\* base-node handler when it called it.
Answer(result, baseCall) == [result |-> result, baseCall |-> baseCall]

\* make_command!(Command, handle, value): Some(command built from handle and
\* value), or None when the command cannot be built from the value.
make_command(command, handle, value, env) ==
    IF env.castOk
    THEN Answer(Some([command |-> command, handle |-> handle, value |-> value]), None)
    ELSE Answer(None, None)

\* handle_base_property_changed(inner, handle, node)
handle_base_property_changed(inner, handle, node, env) ==
    Answer(env.baseResult, Some(<<inner, handle, node>>))

\* A faulty handler: the node's type is not checked.
handle_any_property_changed(args, handle, node, env) ==
    CASE args.value.kind = "Object" ->
            CASE args.name = TEXTURE ->
                    make_command("SetRectangleTextureCommand", handle, args.value.value, env)
              [] args.name = COLOR ->
                    make_command("SetRectangleColorCommand", handle, args.value.value, env)
              [] OTHER -> Answer(None, None)
      [] args.value.kind = "Inspectable" ->
            CASE args.name = BASE ->
                    handle_base_property_changed(args.value.inner, handle, node, env)
              [] OTHER -> Answer(None, None)
      [] OTHER -> Answer(None, None)

handle_rectangle_property_changed(args, handle, node, env) ==
    IF is_rectangle(node)
    THEN CASE args.value.kind = "Object" ->
                 CASE args.name = TEXTURE ->
                         make_command("SetRectangleTextureCommand", handle,
                                      args.value.value, env)
                   [] args.name = COLOR ->
                         make_command("SetRectangleColorCommand", handle,
                                      args.value.value, env)
                   [] OTHER -> Answer(None, None)
           [] args.value.kind = "Inspectable" ->
                 CASE args.name = BASE ->
                         handle_base_property_changed(args.value.inner, handle, node, env)
                   [] OTHER -> Answer(None, None)
           [] OTHER -> Answer(None, None)
    ELSE Answer(None, None)

InitHandler ==
    /\ hcall = NoCall
    /\ ctx = [h \in Handles |-> <<>>]
    /\ stack = <<>> /\ cursor = 0 /\ panicked = FALSE /\ last = NoOp
    /\ meta = <<>> /\ discarded = {} /\ nextId = 1 /\ base = ctx /\ altOk = TRUE
    /\ cmd = NoCommand /\ cmdMeta = NoMeta

\* The inspector reports a changed property of the node behind `handle`.
HandlePropertyChanged ==
    /\ \E args \in PropertyChangedArgs, handle \in NodeHandles,
          node \in NodeKinds, env \in Envs :
         \E a \in {handle_rectangle_property_changed(args, handle, node, env)} :
            hcall' = [called |-> TRUE, args |-> args, handle |-> handle,
                      node |-> node, env |-> env,
                      result |-> a.result, baseCall |-> a.baseCall]
    /\ UNCHANGED <<ctx, panicked, last, stackVars, cmdVars>>

NextHandler == HandlePropertyChanged

SpecHandler == InitHandler /\ [][NextHandler]_vars

----------------------------------------------------------------------------
(* C9 *)

IsCommand(result, command) ==
    result # None /\ Unwrap(result).command = command

\* C9: the handler returns None for a node that is not a rectangle; for a
\* rectangle it returns a texture-set / color-set command only for an
\* Object-kind change named TEXTURE / COLOR (built from the handle and the
\* value), hands an Inspectable-kind change named BASE to the base-node
\* handler and returns its answer, and returns None for every other pair.
C9_RectangleFactory ==
    hcall.called =>
        LET a == hcall.args
            kind == a.value.kind
            rect == hcall.node = "Rectangle"
            res == hcall.result
        IN  /\ ~rect => (res = None /\ hcall.baseCall = None)
            /\ IsCommand(res, "SetRectangleTextureCommand") =>
                  (rect /\ kind = "Object" /\ a.name = "texture")
            /\ IsCommand(res, "SetRectangleColorCommand") =>
                  (rect /\ kind = "Object" /\ a.name = "color")
            /\ (rect /\ kind = "Object" /\ a.name \in {"texture", "color"}) =>
                  \/ res = None /\ ~hcall.env.castOk
                  \/ /\ hcall.env.castOk
                     /\ res = Some([command |-> IF a.name = "texture"
                                                THEN "SetRectangleTextureCommand"
                                                ELSE "SetRectangleColorCommand",
                                    handle |-> hcall.handle,
                                    value |-> a.value.value])
            /\ (rect /\ kind = "Inspectable" /\ a.name = "base") =>
                  /\ hcall.baseCall = Some(<<a.value.inner, hcall.handle, hcall.node>>)
                  /\ res = hcall.env.baseResult
            /\ hcall.baseCall # None => (rect /\ kind = "Inspectable" /\ a.name = "base")
            /\ (rect /\ ~(kind = "Object" /\ a.name \in {"texture", "color"})
                     /\ ~(kind = "Inspectable" /\ a.name = "base")) => res = None

\* A texture change on a rectangle node produced a texture-set command.
C9_Witness ==
    /\ hcall.called
    /\ hcall.node = "Rectangle"
    /\ hcall.args.name = "texture"
    /\ hcall.args.value.kind = "Object"
    /\ IsCommand(hcall.result, "SetRectangleTextureCommand")

----------------------------------------------------------------------------
(* C4 *)

C4Execute ==
    (ExecuteStep /\ cmd.kind = "Remove" /\ cmd.index < Len(ctx[cmd.handle])) =>
        LET old == ctx[cmd.handle]
            new == ctx'[cmd.handle]
        IN  /\ ~panicked'
            /\ Len(new) = Len(old) - 1
            /\ \A k \in 1..Len(new) :
                 new[k] = IF k <= cmd.index THEN old[k] ELSE old[k + 1]
            /\ \A h \in Handles \ {cmd.handle} : ctx'[h] = ctx[h]
            /\ cmd' = [cmd EXCEPT !.value = Some(old[cmd.index + 1])]

C4Revert ==
    (CleanRevert /\ cmd.kind = "Remove") =>
        /\ ~panicked'
        /\ ctx' = cmdMeta.preCtx
        /\ ctx'[cmd.handle][cmd.index + 1] = Unwrap(cmd.value)
        /\ cmd'.index = cmd.index

\* C4: a remove command with 0 <= index < n removes exactly the element at
\* index (the others keep their relative order) and stores it in the command;
\* reverting it with no other change to the collection in between puts that
\* element back at the same index, so the collection equals the pre-execute
\* collection in contents and order.
C4_RemoveRoundTrip == [][C4Execute /\ C4Revert]_vars

\* [A, B, C], remove at index 1, then revert: B is back at index 1.
C4_Witness ==
    /\ ~panicked
    /\ cmd.kind = "Remove" /\ cmd.index = 1
    /\ cmdMeta.ops = <<"execute", "revert">>
    /\ Len(ctx[cmd.handle]) = 3
    /\ ctx[cmd.handle][1] # ctx[cmd.handle][2]
    /\ ctx = cmdMeta.preCtx

----------------------------------------------------------------------------
(* C5 *)

C5Execute ==
    (ExecuteStep /\ cmd.kind = "Add") =>
        /\ ~panicked'
        /\ ctx' = [ctx EXCEPT ![cmd.handle] = Append(@, cmd.value)]
        /\ cmd' = [cmd EXCEPT !.value = Default]

C5Revert ==
    (CleanRevert /\ cmd.kind = "Add") =>
        /\ ~panicked'
        /\ ctx' = cmdMeta.preCtx
        /\ cmd' = cmdMeta.preCmd

\* Execute, revert, execute: the second execute appends X to C again.
C5ReExecute ==
    (ExecuteStep /\ cmd.kind = "Add" /\ cmdMeta.ops = <<"execute", "revert">>) =>
        /\ ctx = cmdMeta.preCtx
        /\ ctx' = [ctx EXCEPT ![cmd.handle] = Append(@, cmdMeta.preCmd.value)]

\* Execute, execute: the second execute appends the default value the first
\* one left in the command.
C5DoubleExecute ==
    (ExecuteStep /\ cmd.kind = "Add" /\ cmdMeta.ops = <<"execute">>) =>
        ctx' = [ctx EXCEPT ![cmd.handle] = Append(@, Default)]

\* Execute, execute: the second execute does not append X.
C5NoReExecute ==
    (ExecuteStep /\ cmd.kind = "Add" /\ cmdMeta.ops = <<"execute">>) =>
        VecLast(ctx'[cmd.handle]) # cmdMeta.preCmd.value

\* C5 as stated: execute yields C ++ [X]; revert yields exactly C and the
\* command holds X again; a further execute yields C ++ [X] again; an execute
\* that follows another execute, with no revert in between, does not append X.
C5_AsStated == [][C5Execute /\ C5Revert /\ C5ReExecute /\ C5NoReExecute]_vars

\* C5 as amended: execute yields C ++ [X] and leaves the default value in the
\* command; revert yields exactly C and the command holds X again; a further
\* execute yields C ++ [X] again; an execute that follows another execute
\* appends the default value, which is X only when X is the default.
C5_AddSymmetry == [][C5Execute /\ C5Revert /\ C5ReExecute /\ C5DoubleExecute]_vars

\* Add(X) with X not the default: executed, reverted and executed again.
C5_Witness ==
    /\ ~panicked
    /\ cmd.kind = "Add"
    /\ cmdMeta.ops = <<"execute", "revert", "execute">>
    /\ cmdMeta.preCmd.value # Default
    /\ ctx[cmd.handle] = Append(cmdMeta.preCtx[cmd.handle], cmdMeta.preCmd.value)

----------------------------------------------------------------------------
(* C6 *)

IsAddPair(c) ==
    /\ c.kind = "Group"
    /\ Len(c.commands) = 2
    /\ c.commands[1].kind = "Add"
    /\ c.commands[2].kind = "Add"
    /\ c.commands[1].handle = c.commands[2].handle

\* Children are executed first to last, and reverted last to first.
C6Order ==
    /\ (ExecuteStep /\ cmd.kind = "Group" /\ ~panicked') =>
          LET r1 == Execute(cmd.commands[1], ctx)
              r2 == Execute(cmd.commands[2], r1.ctx)
          IN  ctx' = r2.ctx /\ cmd'.commands = <<r1.cmd, r2.cmd>>
    /\ (RevertStep /\ cmd.kind = "Group" /\ ~panicked') =>
          LET r2 == Revert(cmd.commands[2], ctx)
              r1 == Revert(cmd.commands[1], r2.ctx)
          IN  ctx' = r1.ctx /\ cmd'.commands = <<r1.cmd, r2.cmd>>

C6Execute ==
    (ExecuteStep /\ IsAddPair(cmd)) =>
        LET h == cmd.commands[1].handle
        IN  /\ ~panicked'
            /\ ctx' = [ctx EXCEPT ![h] =
                          @ \o <<cmd.commands[1].value, cmd.commands[2].value>>]

C6Revert ==
    (CleanRevert /\ cmd.kind = "Group") =>
        /\ ~panicked'
        /\ ctx' = cmdMeta.preCtx
        /\ IsAddPair(cmd) =>
              LET c == ctx[cmd.commands[1].handle]
              IN  /\ cmd'.commands[2].value = c[Len(c)]
                  /\ cmd'.commands[1].value = c[Len(c) - 1]

\* C6: a composite executes its children in stored order and reverts them in
\* the reverse order; a composite [AddA, AddB] on a collection C leaves
\* C ++ [A, B] after execute, its revert removes B (recaptured by the second
\* child) then A (recaptured by the first), and the collection is C again.
C6_CompositeOrder == [][C6Order /\ C6Execute /\ C6Revert]_vars

\* [AddA, AddB] with A # B executed and reverted on a non-empty collection.
C6_Witness ==
    /\ ~panicked
    /\ IsAddPair(cmd)
    /\ cmdMeta.ops = <<"execute", "revert">>
    /\ cmd.commands[1].value # cmd.commands[2].value
    /\ cmd = cmdMeta.preCmd
    /\ ctx = cmdMeta.preCtx
    /\ ctx[cmd.commands[1].handle] # <<>>

----------------------------------------------------------------------------
(* C8 *)

\* C8: when an executed add command is reverted and the last element of its
\* collection is no longer the value it appended, the revert fails loudly.
C8_AddRevertFailsLoudly ==
    [][(RevertStep /\ cmd.kind = "Add" /\ cmdMeta.executed
            /\ ctx[cmd.handle] # <<>>
            /\ VecLast(ctx[cmd.handle]) # cmdMeta.preCmd.value)
        => panicked']_vars

----------------------------------------------------------------------------
(* C10 *)

RECURSIVE RemoveCommandsOf(_)
RemoveCommandsOf(c) ==
    CASE c.kind = "Remove" -> {c}
      [] c.kind = "Group" ->
            UNION {RemoveCommandsOf(c.commands[i]) : i \in DOMAIN c.commands}
      [] OTHER -> {}

\* The slot is populated exactly while the element is out of the collection.
C10Slot ==
    ~panicked =>
        \A r \in RemoveCommandsOf(cmd) : (r.value # None) <=> cmdMeta.executed

\* Reverting a remove command that is not executed finds the slot empty,
\* panics and inserts nothing.
C10SecondRevert ==
    (RevertStep /\ cmd.kind = "Remove" /\ ~cmdMeta.executed) =>
        /\ cmd.value = None
        /\ panicked'
        /\ ctx' = ctx
        /\ cmd' = cmd

\* C10: a remove command's value slot is Some exactly when its element is
\* currently removed from the collection (after execute, before revert) and
\* None otherwise; a second revert without an execute in between finds the
\* slot empty and fails loudly instead of inserting anything.
C10_RemoveSlot == [](C10Slot) /\ [][C10SecondRevert]_vars

\* A remove command executed, reverted and reverted again: the editor panicked
\* and the collection is the one the first revert restored.
C10_Witness ==
    /\ panicked
    /\ cmd.kind = "Remove"
    /\ cmd.value = None
    /\ cmdMeta.ops = <<"execute", "revert", "revert">>
    /\ ctx = cmdMeta.preCtx

----------------------------------------------------------------------------
(* C1 *)

\* The context after executing, in order, the first n commands of the push
\* history m, as they were pushed, on the context x.
RECURSIVE Replay(_, _, _)
Replay(x, m, n) ==
    IF n = 0 THEN x ELSE Execute(m[n].pushed, Replay(x, m, n - 1)).ctx

\* C1: after the pushes P1..Pn on an empty stack and k undos (0 <= k <= n),
\* the cursor is n - k and the context is the one that executing P1..P(n-k)
\* alone, in order, produces from the context the stack started with.
C1_StackLifo ==
    ~panicked =>
        /\ cursor \in 0..Len(stack)
        /\ Len(meta) = Len(stack)
        /\ ctx = Replay(base, meta, cursor)

\* Two pushes that changed the collection, then one undo.
C1_Witness ==
    /\ ~panicked
    /\ last.op = "undo" /\ last.target = 2
    /\ Len(stack) = 2 /\ cursor = 1
    /\ ctx # base
    /\ ctx # Replay(base, meta, 2)

----------------------------------------------------------------------------
(* C2 *)

PushStep == last'.op = "push" /\ nextId' = nextId + 1 /\ ~panicked'

C2Push ==
    PushStep =>
        LET pushed == meta'[Len(meta')].pushed
            r == Execute(pushed, ctx)
        IN  /\ Len(stack') = cursor + 1
            /\ cursor' = Len(stack')
            /\ SubSeq(stack', 1, cursor) = SubSeq(stack, 1, cursor)
            /\ stack'[cursor'] = r.cmd
            /\ ctx' = r.ctx
            /\ \A i \in (cursor + 1)..Len(stack) :
                 /\ meta[i].id \in discarded'
                 /\ meta[i].id \notin Ids(meta')

C2RedoAfterPush ==
    (last.op = "push" /\ last'.op = "redo") =>
        /\ UNCHANGED <<ctx, stack, cursor, panicked>>
        /\ last'.target = 0

C2Unreachable ==
    /\ Ids(meta) \cap discarded = {}
    /\ (last.op \in {"undo", "redo"}) => last.target \notin discarded

\* C2: a push discards every command stored at or after the cursor, appends
\* the pushed command and leaves the cursor at the new length; a redo right
\* after it changes nothing; no undo / redo ever calls a discarded command.
C2_RedoTailDestroyed == [](C2Unreachable) /\ [][C2Push /\ C2RedoAfterPush]_vars

\* Push, undo, push, then a redo that found nothing to redo.
C2_Witness ==
    /\ ~panicked
    /\ last = [op |-> "redo", target |-> 0]
    /\ discarded = {1}
    /\ Ids(meta) = {2}
    /\ cursor = Len(stack)

----------------------------------------------------------------------------
(* C3 *)

\* C3: from a state with cursor > 0, undo() followed by redo() returns the
\* context, the cursor and the stored commands to what they were.
C3_RedoRestores ==
    (~panicked /\ cursor > 0) =>
        LET u == UndoOp(StackState)
            r == RedoOp([ctx |-> u.ctx, stack |-> u.stack, cursor |-> u.cursor])
        IN  /\ u.ok /\ u.call = "revert"
            /\ r.ok /\ r.call = "execute"
            /\ r.ctx = ctx
            /\ r.stack = stack
            /\ r.cursor = cursor

\* An undone command that changed the collection has just been redone.
C3_Witness ==
    /\ ~panicked
    /\ last.op = "redo" /\ last.target # 0
    /\ cursor > 0
    /\ ctx # UndoOp(StackState).ctx

----------------------------------------------------------------------------
(* C7 *)

\* C7: the calls a command receives from push, undo, redo and clear
\* alternate execute, revert, execute, ..., starting with execute: execute is
\* only called on a command that is not executed, revert only on one that is.
C7_Alternation ==
    /\ altOk
    /\ ~panicked => \A i \in DOMAIN meta : meta[i].executed <=> (i <= cursor)

\* The first of two stored commands was executed, reverted and executed
\* again while the second stays reverted.
C7_Witness ==
    /\ ~panicked /\ altOk
    /\ last = [op |-> "redo", target |-> 1]
    /\ Len(meta) = 2
    /\ meta[1].executed /\ ~meta[2].executed

====
